---- MODULE Spec2Model ----
(***************************************************************************)
(* Compliance Alert Engine of fa_advisor_ui: the alert history ledger      *)
(* (server/jobs/complianceScan.ts), its cleanup job                        *)
(* (server/jobs/cleanupAlertHistory.ts) and the two cron triggers.         *)
(*                                                                         *)
(* Time: Date values are milliseconds in the source.  The model's clock    *)
(* counts whole hours, so Day (1000*60*60*24 ms) is 24.                    *)
(***************************************************************************)
EXTENDS Integers, Sequences, FiniteSets, TLC

\* ---------------------------------------------------------------- bounds
MaxNow == 721          \* the clock stops advancing after 30 days and 1 hour
MaxBatch == 2          \* longest alert list handed to getNewAlerts
NumAdvisors == 2       \* most advisors the users query returns
MaxInits == 2          \* most calls of initComplianceJob
MaxHoldings == 2       \* most holdings the holdings query returns for a household
MaxRuns == 2           \* most invocations of runComplianceScan in progress together
MaxCalls == 2          \* most on-demand calls of compliance.ts in progress together
MaxDays == 38          \* days of the daily schedule: retention, a throttle window, a day

\* ------------------------------------------------------ program constants
Day == 24              \* 1000 * 60 * 60 * 24 ms, in hours
RenotifyDays == 7      \* daysSinceLastNotification >= 7
RetentionDays == 30    \* now - 30 * 24 * 60 * 60 * 1000

\* ------------------------------------------------------------ input sets
\* The alerts a scan can produce: a concentration alert of advisor 1, whose
\* severity depends on the holding's percentage at the time of the scan, and
\* an underperforming alert of advisor 2.
Alerts ==
  { [id |-> "conc_1_AAPL", severity |-> "critical", advisorId |-> 1],
    [id |-> "conc_1_AAPL", severity |-> "warning", advisorId |-> 1],
    [id |-> "under_2_MSFT", severity |-> "info", advisorId |-> 2] }
AlertIds == {a.id : a \in Alerts}
\* The instants at which the model lets something happen: the boundaries of
\* the 7-day throttle and of the 30-day retention, and every hour after that.
Instants ==
  {0, 3 * Day, 7 * Day - 1, 7 * Day, 8 * Day, 29 * Day, 30 * Day}
    \cup ((30 * Day + 1) .. MaxNow)

RECURSIVE SeqsUpTo(_, _)
SeqsUpTo(S, n) ==
  IF n = 0 THEN {<<>>}
  ELSE LET shorter == SeqsUpTo(S, n - 1)
       IN shorter \cup {Append(s, x) : s \in {q \in shorter : Len(q) = n - 1}, x \in S}

Batches == SeqsUpTo(Alerts, MaxBatch)

\* what scanComplianceIssues(advisorId) can return: alerts of that advisor
BatchesOf(advisorId) == SeqsUpTo({a \in Alerts : a.advisorId = advisorId}, MaxBatch)

\* The alerts the scans of one run can produce: advisor 1 has, besides the
\* concentration alert, an informational alert on the same household.
RunAlerts == Alerts \cup {[id |-> "under_1_AAPL", severity |-> "info", advisorId |-> 1]}
RunBatchesOf(advisorId) == SeqsUpTo({a \in RunAlerts : a.advisorId = advisorId}, MaxBatch)

\* the invocations of runComplianceScan that can be in progress together
RunIds == 1..MaxRuns

\* the on-demand calls of compliance.ts that can be in progress together
CallIds == 1..MaxCalls

VARIABLES
  now,           \* wall clock (new Date()), hours
  alertHistory,  \* the Map<string, AlertHistory>, as a function on its keys
  newAlerts,     \* the list returned by the latest getNewAlerts call of this instant
  notifiedAt,    \* history: id -> instant of its latest inclusion in a new-alert list
  observed,      \* history: ids that were handed to getNewAlerts
  pruned,        \* history: ids whose entry a cleanup pass removed and no scan re-created
  cleaned,       \* history: a cleanup pass has run at this instant
  runs,          \* RunIds -> the locals and the position of that runComplianceScan
  tasks,         \* the tasks cron.schedule created, in order: kind and armed
  cronTask,      \* complianceScan.ts cronTask: index into tasks, 0 for null
  cleanupTask,   \* cleanupAlertHistory.ts cleanupTask: index into tasks, 0 for null
  pendingImports, \* import("./cleanupAlertHistory") promises not yet resolved
  scans,         \* CallIds -> position and locals of that on-demand call of compliance.ts
  twin,          \* a second execution of the ledger, fed the same ids in lockstep
  active         \* the synchronous ledger operation in progress, statement by statement

ledgerVars == <<alertHistory, notifiedAt, observed, pruned>>
schedVars == <<tasks, cronTask, cleanupTask, pendingImports>>
procVars == <<scans, twin, active>>
vars == <<now, alertHistory, newAlerts, notifiedAt, observed, pruned, cleaned,
          runs, tasks, cronTask, cleanupTask, pendingImports, scans, twin, active>>

IdsOf(alerts) == {alerts[i].id : i \in 1..Len(alerts)}

\* ------------------------------------------------------------ getNewAlerts
\* daysSinceLastNotification >= 7, with the division by one day multiplied out
ShouldRenotifyNever(t, lastNotified) == FALSE
ShouldRenotifyEarly(t, lastNotified) == (t - lastNotified) >= (RenotifyDays - 1) * Day
ShouldRenotifyStrict(t, lastNotified) == (t - lastNotified) > RenotifyDays * Day
ShouldRenotify(t, lastNotified) == (t - lastNotified) >= RenotifyDays * Day

NewEntryStale(id, t) == [alertId |-> id, firstDetected |-> t, lastNotified |-> t - RenotifyDays * Day]
NewEntry(id, t) == [alertId |-> id, firstDetected |-> t, lastNotified |-> t]

RenotifiedReset(entry, t) == [entry EXCEPT !.lastNotified = t, !.firstDetected = t]
Renotified(entry, t) == [entry EXCEPT !.lastNotified = t]

RECURSIVE getNewAlertsLoop(_, _, _, _)
getNewAlertsLoop(hist, allAlerts, t, acc) ==
  IF allAlerts = <<>> THEN [history |-> hist, newAlerts |-> acc]
  ELSE LET alert == Head(allAlerts)
           rest == Tail(allAlerts)
       IN IF alert.id \notin DOMAIN hist
          THEN getNewAlertsLoop(hist @@ (alert.id :> NewEntry(alert.id, t)),
                                rest, t, Append(acc, alert))
          ELSE IF ShouldRenotify(t, hist[alert.id].lastNotified)
               THEN getNewAlertsLoop([hist EXCEPT ![alert.id] = Renotified(@, t)],
                                     rest, t, Append(acc, alert))
               ELSE getNewAlertsLoop(hist, rest, t, acc)

getNewAlertsCriticalAlways(hist, allAlerts, t) ==
  LET critical == {allAlerts[k].id : k \in {j \in 1..Len(allAlerts) :
                                              allAlerts[j].severity = "critical"}}
  IN getNewAlertsLoop([id \in DOMAIN hist \ critical |-> hist[id]], allAlerts, t, <<>>)
getNewAlertsForgetting(hist, allAlerts, t) ==
  getNewAlertsLoop([id \in DOMAIN hist \cap IdsOf(allAlerts) |-> hist[id]], allAlerts, t, <<>>)
getNewAlerts(hist, allAlerts, t) == getNewAlertsLoop(hist, allAlerts, t, <<>>)

\* ------------------------------------------------- cleanupOldAlertHistory
\* history.firstDetected < thirtyDaysAgo
IsExpiredInclusive(entry, t) == entry.firstDetected <= t - RetentionDays * Day
IsExpiredByNotification(entry, t) == entry.lastNotified < t - RetentionDays * Day
IsExpired(entry, t) == entry.firstDetected < t - RetentionDays * Day

cleanupEverything(hist, t) == <<>>
cleanupOldAlertHistory(hist, t) ==
  LET kept == {id \in DOMAIN hist : ~IsExpired(hist[id], t)}
  IN [id \in kept |-> hist[id]]

\* -------------------------------------------------------- runComplianceScan
\* pc is the await the run is suspended at: "getDb" (line 121),
\* "listAdvisors" (128), "scan" (144), "notifyAdvisor" (153 -> 74),
\* "summary" (165), "failNotify" (180); "returned" and "rejected" are the two
\* ways the promise of runComplianceScan settles.
IdleRun ==
  [pc |-> "idle", advisors |-> 0, i |-> 0, newAlerts |-> <<>>,
   totalAlerts |-> 0, totalCritical |-> 0, error |-> "none", sent |-> <<>>]

\* outcomes of one notifyOwner call
NotifyOutcomes == {"delivered", "threw"}

CountSeverity(alerts, sev) == Cardinality({j \in 1..Len(alerts) : alerts[j].severity = sev})

OfSeverity(alerts, sev) == SelectSeq(alerts, LAMBDA a : a.severity = sev)
FirstFive(alerts) == SubSeq(alerts, 1, IF Len(alerts) < 5 THEN Len(alerts) ELSE 5)

\* the alerts the message of notifyAdvisorOfAlerts lists: every critical
\* alert, then the first five warnings
AdvisorMessageEverything(alerts) == alerts
AdvisorMessage(alerts) ==
  OfSeverity(alerts, "critical") \o FirstFive(OfSeverity(alerts, "warning"))

\* notifyAdvisorOfAlerts returns without a message
NothingToNotifyIfNoCritical(alerts) == OfSeverity(alerts, "critical") = <<>>
NothingToNotify(alerts) ==
  OfSeverity(alerts, "critical") = <<>> /\ OfSeverity(alerts, "warning") = <<>>

\* the catch block: log, then await the failure notification
Caught(run, err) == [run EXCEPT !.pc = "failNotify", !.error = err]

\* top of the for loop over advisors, and what follows the loop
LoopHeadAlwaysSummary(run) ==
  IF run.i <= run.advisors THEN [run EXCEPT !.pc = "scan"]
  ELSE [run EXCEPT !.pc = "summary"]
LoopHead(run) ==
  IF run.i <= run.advisors THEN [run EXCEPT !.pc = "scan"]
  ELSE IF run.totalAlerts > 0 THEN [run EXCEPT !.pc = "summary"]
  ELSE [run EXCEPT !.pc = "returned"]

NextAdvisor(run) == LoopHead([run EXCEPT !.i = @ + 1, !.newAlerts = <<>>])

\* ---------------------------------------- the rules of scanComplianceIssues
\* Money is in whole dollars. A percentage is the exact quotient num / den;
\* the source compares the double (value / total) * 100 with 5, 10, 20, 40
\* and 70, which on these inputs agrees with the exact comparison (a ratio
\* of exactly 1/10 gives the double 10, and so on for the other thresholds).
ConcentrationPct == 10
ConcentrationCriticalPct == 20
ConservativeMaxEquityPct == 40
ModerateMinEquityPct == 40
ModerateMaxEquityPct == 70
AggressiveMinEquityPct == 70
NoReviewDays == 999
ReviewDueDays == 365
ReviewCriticalDays == 400
LargePositionValue == 100000
LargePortfolioValue == 500000
LargePositionPct == 5
UnderperformingLossPct == 20
UnderperformingMinValue == 10000

\* rows of the households query; riskTolerance "null" and lastReviewDate <<>>
\* are the SQL NULLs, a review date is an instant of the clock
HouseholdRows ==
  { [householdId |-> 1, advisorId |-> 1, riskTolerance |-> "conservative",
     lastReviewDate |-> <<0 - 365 * Day>>],
    [householdId |-> 1, advisorId |-> 1, riskTolerance |-> "moderate",
     lastReviewDate |-> <<0 - 366 * Day>>],
    [householdId |-> 2, advisorId |-> 1, riskTolerance |-> "aggressive",
     lastReviewDate |-> <<0 - 400 * Day>>],
    [householdId |-> 2, advisorId |-> 2, riskTolerance |-> "null",
     lastReviewDate |-> <<>>],
    [householdId |-> 3, advisorId |-> 2, riskTolerance |-> "moderate",
     lastReviewDate |-> <<0 - 401 * Day>>],
    [householdId |-> 3, advisorId |-> 2, riskTolerance |-> "conservative",
     lastReviewDate |-> <<0>>] }

\* rows of the holdings query
Holding(ticker, currentValue, assetClass, shares, costBasis) ==
  [ticker |-> ticker, currentValue |-> currentValue, assetClass |-> assetClass,
   shares |-> shares, costBasis |-> costBasis]
HoldingRows ==
  { Holding("AAPL", 25000, "equity", 100, 200),
    Holding("MSFT", 75000, "equity", 100, 1000),
    Holding("AAPL", 10000, "bond", 100, 125),
    Holding("MSFT", 90000, "bond", 10, 0),
    Holding("AAPL", 20000, "equity", 100, 250),
    Holding("MSFT", 80000, "bond", 100, 1100),
    Holding("BND", 0, "bond", 0, 0),
    Holding("MSFT", 400000, "equity", 1000, 300),
    Holding("AAPL", 100001, "equity", 10, 20000),
    Holding("BND", 30000, "bond", 300, 100),
    Holding("MSFT", 70000, "equity", 100, 700),
    Holding("BND", 10000, "bond", 100, 200),
    Holding("AAPL", 100000, "equity", 1000, 100),
    Holding("MSFT", 500000, "equity", 1000, 500),
    Holding("AAPL", 105000, "equity", 1000, 105),
    Holding("BND", 1995000, "bond", 1995, 1000) }
HoldingsLists == SeqsUpTo(HoldingRows, MaxHoldings)

Percentage(value, total) == [num |-> 100 * value, den |-> total]
ZeroPct == [num |-> 0, den |-> 1]
Above(p, n) == p.num > n * p.den
BelowInclusive(p, n) == p.num <= n * p.den
Below(p, n) == p.num < n * p.den

RECURSIVE SumValues(_)
SumValues(hs) ==
  IF hs = <<>> THEN 0 ELSE Head(hs).currentValue + SumValues(Tail(hs))

PctOfTotal(value, totalValue) ==
  IF totalValue > 0 THEN Percentage(value, totalValue) ELSE ZeroPct

Alert(kind, household, suffix, severity, type, affected) ==
  [id |-> kind \o "_" \o ToString(household.householdId) \o suffix,
   severity |-> severity, type |-> type,
   householdId |-> household.householdId, advisorId |-> household.advisorId,
   affectedHoldings |-> affected]

Affected(holding, percentage) ==
  <<[ticker |-> holding.ticker, percentage |-> percentage,
     value |-> holding.currentValue]>>

\* 1. concentration risk, one holding
ExceedsConcentrationInclusive(percentage) ==
  percentage.num >= ConcentrationPct * percentage.den
ExceedsConcentration(percentage) == Above(percentage, ConcentrationPct)

ConcentrationOf(household, holding, totalValue) ==
  LET percentage == PctOfTotal(holding.currentValue, totalValue)
  IN IF ExceedsConcentration(percentage)
     THEN <<Alert("conc", household, "_" \o holding.ticker,
                  IF Above(percentage, ConcentrationCriticalPct)
                  THEN "critical" ELSE "warning",
                  "concentration_risk", Affected(holding, percentage))>>
     ELSE <<>>

RECURSIVE ConcentrationRule(_, _, _)
ConcentrationRule(household, hs, totalValue) ==
  IF hs = <<>> THEN <<>>
  ELSE ConcentrationOf(household, Head(hs), totalValue)
         \o ConcentrationRule(household, Tail(hs), totalValue)

\* 2. risk profile suitability, one alert per household at most
IsEquity(holding) == holding.assetClass = "equity"
RiskToleranceOf(household) ==
  IF household.riskTolerance = "null" THEN "moderate" ELSE household.riskTolerance

IsSuitabilityIssueInclusive(riskTolerance, equityPercentage) ==
  \/ riskTolerance = "conservative"
       /\ ~Below(equityPercentage, ConservativeMaxEquityPct)
  \/ riskTolerance = "moderate"
       /\ (\/ ~Above(equityPercentage, ModerateMinEquityPct)
           \/ ~Below(equityPercentage, ModerateMaxEquityPct))
  \/ riskTolerance = "aggressive"
       /\ ~Above(equityPercentage, AggressiveMinEquityPct)
IsSuitabilityIssue(riskTolerance, equityPercentage) ==
  IF riskTolerance = "conservative" /\ Above(equityPercentage, ConservativeMaxEquityPct)
  THEN TRUE
  ELSE IF riskTolerance = "moderate"
            /\ (\/ Below(equityPercentage, ModerateMinEquityPct)
                \/ Above(equityPercentage, ModerateMaxEquityPct))
  THEN TRUE
  ELSE riskTolerance = "aggressive" /\ Below(equityPercentage, AggressiveMinEquityPct)

SuitabilityRule(household, hs, totalValue) ==
  LET equityValue == SumValues(SelectSeq(hs, IsEquity))
      equityPercentage == PctOfTotal(equityValue, totalValue)
  IN IF IsSuitabilityIssue(RiskToleranceOf(household), equityPercentage)
     THEN <<Alert("suit", household, "", "warning", "suitability_mismatch", <<>>)>>
     ELSE <<>>

\* 3. annual review, one alert per household at most
DaysSinceReview(household, t) ==
  IF household.lastReviewDate = <<>> THEN NoReviewDays
  ELSE (t - household.lastReviewDate[1]) \div Day

ReviewRuleInclusive(household, t) ==
  LET daysSinceReview == DaysSinceReview(household, t)
  IN IF daysSinceReview >= ReviewDueDays
     THEN <<Alert("review", household, "",
                  IF daysSinceReview >= ReviewCriticalDays THEN "critical" ELSE "warning",
                  "annual_review_due", <<>>)>>
     ELSE <<>>
ReviewRule(household, t) ==
  LET daysSinceReview == DaysSinceReview(household, t)
  IN IF daysSinceReview > ReviewDueDays
     THEN <<Alert("review", household, "",
                  IF daysSinceReview > ReviewCriticalDays THEN "critical" ELSE "warning",
                  "annual_review_due", <<>>)>>
     ELSE <<>>

\* 4. large positions (informational)
IsLargePositionInclusive(holding) == holding.currentValue >= LargePositionValue
IsLargePosition(holding) == holding.currentValue > LargePositionValue

LargePositionOf(household, position, totalValue) ==
  LET percentage == Percentage(position.currentValue, totalValue)
  IN IF Above(percentage, LargePositionPct)
     THEN <<Alert("large", household, "_" \o position.ticker, "info",
                  "large_position", Affected(position, percentage))>>
     ELSE <<>>

RECURSIVE LargePositionLoop(_, _, _)
LargePositionLoop(household, positions, totalValue) ==
  IF positions = <<>> THEN <<>>
  ELSE LargePositionOf(household, Head(positions), totalValue)
         \o LargePositionLoop(household, Tail(positions), totalValue)

LargePositionRule(household, hs, totalValue) ==
  LET largePositions == SelectSeq(hs, IsLargePosition)
  IN IF Len(largePositions) > 0 /\ totalValue > LargePortfolioValue
     THEN LargePositionLoop(household, largePositions, totalValue)
     ELSE <<>>

\* 5. underperforming holdings (informational)
UnderperformingOf(household, holding, totalValue) ==
  LET cost == holding.shares * holding.costBasis
      current == holding.currentValue
      gainLoss == current - cost
      gainLossPercent == IF cost > 0 THEN Percentage(gainLoss, cost) ELSE ZeroPct
  IN IF Below(gainLossPercent, 0 - UnderperformingLossPct)
          /\ current > UnderperformingMinValue
     THEN <<Alert("under", household, "_" \o holding.ticker, "info",
                  "underperforming",
                  Affected(holding, Percentage(current, totalValue)))>>
     ELSE <<>>

RECURSIVE UnderperformingRule(_, _, _)
UnderperformingRule(household, hs, totalValue) ==
  IF hs = <<>> THEN <<>>
  ELSE UnderperformingOf(household, Head(hs), totalValue)
         \o UnderperformingRule(household, Tail(hs), totalValue)

\* the body of the loop over households: what one household adds to alerts
EvaluateHousehold(household, householdHoldings, t) ==
  IF Len(householdHoldings) = 0 THEN <<>>
  ELSE LET totalValue == SumValues(householdHoldings)
       IN ConcentrationRule(household, householdHoldings, totalValue)
            \o SuitabilityRule(household, householdHoldings, totalValue)
            \o ReviewRule(household, t)
            \o LargePositionRule(household, householdHoldings, totalValue)
            \o UnderperformingRule(household, householdHoldings, totalValue)

\* ------------------------------------------------- the three side processes
\* no call of compliance.ts in progress
IdleScan ==
  [pc |-> "idle", entry |-> "none", advisorId |-> 0, householdId |-> 0,
   householdsList |-> <<>>, h |-> 0, householdHoldings |-> <<>>,
   alerts |-> <<>>, result |-> <<>>, error |-> "none"]

\* the second execution starts from the same empty ledger
IdleTwin == [history |-> <<>>, newAlerts |-> <<>>, escalated |-> FALSE]

\* no ledger operation is on the stack: neither a getNewAlerts call nor a
\* cleanup pass has statements left to execute
IdleCall == [who |-> 0, allAlerts |-> <<>>, k |-> 0, newAlerts |-> <<>>, start |-> <<>>]
IdlePass == [who |-> "none", keys |-> {}, start |-> <<>>]
IdleSection == [call |-> IdleCall, pass |-> IdlePass]

\* ---------------------------------------------------------------- actions
Init ==
  /\ now = 0
  /\ alertHistory = <<>>
  /\ newAlerts = <<>>
  /\ notifiedAt = <<>>
  /\ observed = {}
  /\ pruned = {}
  /\ cleaned = FALSE
  /\ runs = [r \in RunIds |-> IdleRun]
  /\ tasks = <<>>
  /\ cronTask = 0
  /\ cleanupTask = 0
  /\ pendingImports = 0
  /\ scans = [c \in CallIds |-> IdleScan]
  /\ twin = IdleTwin
  /\ active = IdleSection

\* Time passes until the next instant at which something happens.
Tick(t) ==
  /\ t > now
  /\ now' = t
  /\ newAlerts' = <<>>
  /\ cleaned' = FALSE
  /\ UNCHANGED <<ledgerVars, runs, schedVars, procVars>>

\* The ledger and its history after getNewAlerts(allAlerts) returned r.
Admitted(allAlerts, r) ==
  /\ alertHistory' = r.history
  /\ notifiedAt' = [id \in DOMAIN notifiedAt \cup IdsOf(r.newAlerts) |->
                      IF id \in IdsOf(r.newAlerts) THEN now ELSE notifiedAt[id]]
  /\ observed' = observed \cup IdsOf(allAlerts)
  /\ pruned' = pruned \ DOMAIN r.history

\* One call of getNewAlerts (complianceScan.ts:145); the function is
\* synchronous, so the whole batch takes effect in one step.
GetNewAlertsCall(allAlerts) ==
  LET r == getNewAlerts(alertHistory, allAlerts, now)
  IN /\ Admitted(allAlerts, r)
     /\ newAlerts' = r.newAlerts
     /\ UNCHANGED <<now, cleaned, runs, schedVars, procVars>>

\* One firing of the hourly cleanup callback.
CleanupPass ==
  /\ alertHistory' = cleanupOldAlertHistory(alertHistory, now)
  /\ pruned' = pruned \cup (DOMAIN alertHistory \ DOMAIN alertHistory')
  /\ cleaned' = TRUE
  /\ UNCHANGED <<now, newAlerts, notifiedAt, observed, runs, schedVars, procVars>>

NextLedger ==
  \/ \E t \in Instants : Tick(t)
  \/ \E b \in Batches : GetNewAlertsCall(b)
  \/ CleanupPass

\* The ledger over time. A run reaches the ledger only through its
\* getNewAlerts calls, so every interleaving of runs, failed or not, with
\* cleanup passes is a behaviour of this specification.
SpecLedger == Init /\ [][NextLedger]_vars

\* ------------------------------------------------ steps of runComplianceScan
notLedger == <<now, cleaned, schedVars, procVars>>
ledgerState == <<alertHistory, newAlerts, notifiedAt, observed, pruned>>

\* the places of runs that hold no invocation in progress
FreeRuns == {r \in RunIds : runs[r].pc \in {"idle", "returned", "rejected"}}

\* runComplianceScan() is called: log, then await getDb(). Nothing in the
\* code keeps a second invocation from starting while one is in progress;
\* the new one takes the first free place.
StartRun(r) ==
  /\ r \in FreeRuns
  /\ \A q \in FreeRuns : r <= q
  /\ runs' = [runs EXCEPT ![r] = [IdleRun EXCEPT !.pc = "getDb"]]

\* getDb() resolved; without a database the run logs and returns
GetDbReturns(r, db) ==
  /\ runs[r].pc = "getDb"
  /\ runs' = [runs EXCEPT ![r] =
       IF db = "null"
       THEN [@ EXCEPT !.pc = "returned", !.error = "database not available"]
       ELSE [@ EXCEPT !.pc = "listAdvisors"]]
  /\ UNCHANGED <<ledgerState, notLedger>>

\* the users query resolved with n advisors
AdvisorsListed(r, n) ==
  /\ runs[r].pc = "listAdvisors"
  /\ runs' = [runs EXCEPT ![r] = LoopHead([@ EXCEPT !.advisors = n, !.i = 1])]
  /\ UNCHANGED <<ledgerState, notLedger>>

AdvisorsQueryThrows(r) ==
  /\ runs[r].pc = "listAdvisors"
  /\ runs' = [runs EXCEPT ![r] = Caught(@, "advisors query failed")]
  /\ UNCHANGED <<ledgerState, notLedger>>

\* scanComplianceIssues(advisor.id) resolved with alerts: getNewAlerts and,
\* if the new list is not empty, the run totals and the call of
\* notifyAdvisorOfAlerts, which the run awaits whatever the severities
ScanReturns(r, alerts) ==
  /\ runs[r].pc = "scan"
  /\ LET res == getNewAlerts(alertHistory, alerts, now)
         new == res.newAlerts
         counted == [runs[r] EXCEPT
                       !.newAlerts = new,
                       !.totalAlerts = @ + Len(new),
                       !.totalCritical = @ + CountSeverity(new, "critical")]
     IN /\ Admitted(alerts, res)
        /\ newAlerts' = new
        /\ runs' = [runs EXCEPT ![r] =
             IF Len(new) = 0 THEN NextAdvisor(@)
             ELSE [counted EXCEPT !.pc = "notifyAdvisor"]]
  /\ UNCHANGED notLedger

ScanThrows(r) ==
  /\ runs[r].pc = "scan"
  /\ runs' = [runs EXCEPT ![r] = Caught(@, "scan failed")]
  /\ UNCHANGED <<ledgerState, notLedger>>

\* notifyAdvisorOfAlerts returned at its first check, without a message:
\* the run goes on after the await
AdvisorNotifySkipped(r) ==
  /\ runs[r].pc = "notifyAdvisor"
  /\ NothingToNotify(runs[r].newAlerts)
  /\ runs' = [runs EXCEPT ![r] = NextAdvisor(@)]
  /\ UNCHANGED <<ledgerState, notLedger>>

\* notifyOwner of notifyAdvisorOfAlerts settled
AdvisorNotifySettles(r, outcome) ==
  /\ runs[r].pc = "notifyAdvisor"
  /\ ~NothingToNotify(runs[r].newAlerts)
  /\ runs' = [runs EXCEPT ![r] =
       IF outcome = "threw" THEN Caught(@, "notification failed")
       ELSE NextAdvisor([@ EXCEPT !.sent = Append(@,
              [kind |-> "alerts", advisor |-> runs[r].i,
               critical |-> CountSeverity(runs[r].newAlerts, "critical"),
               warning |-> CountSeverity(runs[r].newAlerts, "warning"),
               alerts |-> AdvisorMessage(runs[r].newAlerts), detail |-> "none"])])]
  /\ UNCHANGED <<ledgerState, notLedger>>

\* notifyOwner of the owner summary settled
SummarySettles(r, outcome) ==
  /\ runs[r].pc = "summary"
  /\ runs' = [runs EXCEPT ![r] =
       IF outcome = "threw" THEN Caught(@, "notification failed")
       ELSE [@ EXCEPT !.pc = "returned",
                      !.sent = Append(@, [kind |-> "summary", advisor |-> 0,
                                          critical |-> runs[r].totalCritical,
                                          warning |-> runs[r].totalAlerts,
                                          alerts |-> <<>>, detail |-> "none"])]]
  /\ UNCHANGED <<ledgerState, notLedger>>

\* notifyOwner of the catch block settled; nothing catches its error
FailureNotifySettles(r, outcome) ==
  /\ runs[r].pc = "failNotify"
  /\ runs' = [runs EXCEPT ![r] =
       IF outcome = "threw" THEN [@ EXCEPT !.pc = "rejected"]
       ELSE [@ EXCEPT !.pc = "returned",
                      !.sent = Append(@, [kind |-> "failure", advisor |-> 0,
                                          critical |-> 0, warning |-> 0,
                                          alerts |-> <<>>, detail |-> runs[r].error])]]
  /\ UNCHANGED <<ledgerState, notLedger>>

\* the lists the scan of each advisor of a run can return
ScansOf(alerts, longest) ==
  [i \in 0..NumAdvisors + 1 |-> SeqsUpTo({a \in alerts : a.advisorId = i}, longest)]

\* one step of run r, the users query returning one of counts advisors and
\* the scan of advisor i one of the lists batchesOf[i]
RunStepOn(r, counts, batchesOf) ==
  \/ \E db \in {"db", "null"} : GetDbReturns(r, db)
  \/ \E n \in counts : AdvisorsListed(r, n)
  \/ AdvisorsQueryThrows(r)
  \/ \E alerts \in batchesOf[runs[r].i] : ScanReturns(r, alerts)
  \/ ScanThrows(r)
  \/ AdvisorNotifySkipped(r)
  \/ \E outcome \in NotifyOutcomes : AdvisorNotifySettles(r, outcome)
  \/ \E outcome \in NotifyOutcomes : SummarySettles(r, outcome)
  \/ \E outcome \in NotifyOutcomes : FailureNotifySettles(r, outcome)

RunStep(r) == RunStepOn(r, 0..NumAdvisors, ScansOf(Alerts, MaxBatch))

\* the same steps on the smallest inputs, for the specifications that let
\* several runs be in progress together: one advisor, whose scan returns
\* nothing, the critical alert or the informational alert
BriefAlerts == {a \in RunAlerts : a.severity \in {"critical", "info"}}
BriefStep(r) == RunStepOn(r, {1}, ScansOf(BriefAlerts, 1))

\* ------------------------------------------------------------ the triggers
StopTaskNever(ts, h) == ts
\* if (task) task.stop()
StopTask(ts, h) == IF h = 0 THEN ts ELSE [ts EXCEPT ![h].armed = FALSE]

Armed(kind) == {h \in 1..Len(tasks) : tasks[h].kind = kind /\ tasks[h].armed}

\* initComplianceJob(): stop the old task, schedule a new one, start the import
InitComplianceJob ==
  /\ Cardinality({h \in 1..Len(tasks) : tasks[h].kind = "scan"}) < MaxInits
  /\ tasks' = Append(StopTask(tasks, cronTask), [kind |-> "scan", armed |-> TRUE])
  /\ cronTask' = Len(tasks) + 1
  /\ pendingImports' = pendingImports + 1
  /\ UNCHANGED <<ledgerState, now, cleaned, runs, cleanupTask, procVars>>

\* an import promise resolved: initCleanupJob(alertHistory)
ImportResolved ==
  /\ pendingImports > 0
  /\ pendingImports' = pendingImports - 1
  /\ tasks' = Append(StopTask(tasks, cleanupTask), [kind |-> "cleanup", armed |-> TRUE])
  /\ cleanupTask' = Len(tasks) + 1
  /\ UNCHANGED <<ledgerState, now, cleaned, runs, cronTask, procVars>>

\* the daily trigger fires: its callback calls runComplianceScan
ScanTriggerFires(h) ==
  /\ h \in Armed("scan")
  /\ \E r \in RunIds : StartRun(r)
  /\ UNCHANGED <<ledgerState, notLedger>>

\* the hourly trigger fires: its callback is one cleanup pass
CleanupTriggerFires(h) ==
  /\ h \in Armed("cleanup")
  /\ CleanupPass

\* triggerComplianceScan(): a manual run, in place r
TriggerRun(r) ==
  /\ StartRun(r)
  /\ UNCHANGED <<ledgerState, notLedger>>

TriggerComplianceScan == \E r \in RunIds : TriggerRun(r)

Next ==
  \/ InitComplianceJob
  \/ ImportResolved
  \/ \E h \in 1..Len(tasks) : ScanTriggerFires(h)
  \/ \E h \in 1..Len(tasks) : CleanupTriggerFires(h)
  \/ TriggerComplianceScan
  \/ \E r \in RunIds : BriefStep(r)

\* The triggers and the runs, await by await, at one instant of the clock.
\* At most MaxRuns runs are in progress together, whatever started them.
Spec == Init /\ [][Next]_vars

\* One job body at a time, started by hand, over the richer scan results,
\* with cleanup firings between its awaits and a week passing between runs.
JobStep(r) == RunStepOn(r, 0..NumAdvisors, ScansOf(RunAlerts, MaxBatch))

NextJob ==
  \/ TriggerRun(1)
  \/ JobStep(1)
  \/ CleanupPass
  \/ Tick(RenotifyDays * Day)
  \/ Tick(RetentionDays * Day + 1)

SpecJob == Init /\ [][NextJob]_vars

\* ------------------------------------- the on-demand calls of compliance.ts
notScan == <<ledgerState, now, cleaned, runs, schedVars, twin, active>>

EntryPoints == {"scanComplianceIssues", "getComplianceStats", "getHouseholdAlerts"}
AlertTypes ==
  {"concentration_risk", "suitability_mismatch", "annual_review_due",
   "large_position", "underperforming"}

CountType(alerts, type) ==
  Cardinality({k \in 1..Len(alerts) : alerts[k].type = type})

\* getComplianceStats: the statistics of the scanned alerts
StatsOf(alerts) ==
  [totalAlerts |-> Len(alerts),
   criticalAlerts |-> CountSeverity(alerts, "critical"),
   warningAlerts |-> CountSeverity(alerts, "warning"),
   infoAlerts |-> CountSeverity(alerts, "info"),
   alertsByType |-> [type \in AlertTypes |-> CountType(alerts, type)],
   householdsAffected |-> Cardinality({alerts[k].householdId : k \in 1..Len(alerts)})]

\* getHouseholdAlerts: the alerts of one household
AlertsOfHousehold(alerts, householdId) ==
  LET Mine(a) == a.householdId = householdId IN SelectSeq(alerts, Mine)

\* what the entry point resolves with once scanComplianceIssues returned alerts
ResultOf(entry, alerts, householdId) ==
  IF entry = "getComplianceStats" THEN <<StatsOf(alerts)>>
  ELSE IF entry = "getHouseholdAlerts" THEN <<AlertsOfHousehold(alerts, householdId)>>
  ELSE <<alerts>>

\* top of the for loop over householdsList, and the return after it: a
\* direct call of scanComplianceIssues resolves with the alerts, while
\* getComplianceStats and getHouseholdAlerts are still suspended at their
\* await of scanComplianceIssues
ScanLoopHead(s) ==
  IF s.h <= Len(s.householdsList) THEN [s EXCEPT !.pc = "holdings"]
  ELSE IF s.entry = "scanComplianceIssues"
       THEN [s EXCEPT !.pc = "resolved",
                      !.result = ResultOf(s.entry, s.alerts, s.householdId)]
       ELSE [s EXCEPT !.pc = "scanReturned"]

ScanRejected(s, err) == [s EXCEPT !.pc = "rejected", !.error = err]

\* the places of scans that hold no call in progress
FreeCalls == {c \in CallIds : scans[c].pc = "idle"}

\* a caller invokes an entry point, whatever other calls are in progress;
\* the call takes the first free place. getHouseholdAlerts scans without an
\* advisor and filters on its householdId, 0 included; for the two other
\* entry points advisorId 0 is as good as the absent argument
\* (if (advisorId) at line 67) and householdId is not used.
ApiCall(c, entry, advisorId, householdId) ==
  /\ c \in FreeCalls
  /\ \A q \in FreeCalls : c <= q
  /\ IF entry = "getHouseholdAlerts" THEN advisorId = 0 ELSE householdId = 0
  /\ scans' = [scans EXCEPT ![c] =
       [IdleScan EXCEPT !.pc = "getDb", !.entry = entry,
                        !.advisorId = advisorId, !.householdId = householdId]]
  /\ UNCHANGED notScan

\* await getDb() in scanComplianceIssues
ScanGetDbReturns(c, db) ==
  /\ scans[c].pc = "getDb"
  /\ scans' = [scans EXCEPT ![c] =
       IF db = "null" THEN ScanRejected(@, "Database not available")
       ELSE [@ EXCEPT !.pc = "households"]]
  /\ UNCHANGED notScan

\* await householdsQuery: the rows, of the advisor only if one was given
HouseholdsListed(c, list) ==
  /\ scans[c].pc = "households"
  /\ scans[c].advisorId # 0 =>
       \A k \in 1..Len(list) : list[k].advisorId = scans[c].advisorId
  /\ scans' = [scans EXCEPT ![c] = ScanLoopHead([@ EXCEPT !.householdsList = list, !.h = 1])]
  /\ UNCHANGED notScan

HouseholdsQueryThrows(c) ==
  /\ scans[c].pc = "households"
  /\ scans' = [scans EXCEPT ![c] = ScanRejected(@, "households query failed")]
  /\ UNCHANGED notScan

\* await of the holdings query of household h, then the five rules
HoldingsReturn(c, householdHoldings) ==
  /\ scans[c].pc = "holdings"
  /\ scans' = [scans EXCEPT ![c] = ScanLoopHead(
       [@ EXCEPT !.householdHoldings = householdHoldings,
                 !.alerts = @ \o EvaluateHousehold(scans[c].householdsList[scans[c].h],
                                                   householdHoldings, now),
                 !.h = @ + 1])]
  /\ UNCHANGED notScan

\* getComplianceStats or getHouseholdAlerts resumes after its await of
\* scanComplianceIssues: it counts or filters the alerts and resolves
WrapperResumes(c) ==
  /\ scans[c].pc = "scanReturned"
  /\ scans' = [scans EXCEPT ![c] =
       [@ EXCEPT !.pc = "resolved",
                 !.result = ResultOf(scans[c].entry, scans[c].alerts,
                                     scans[c].householdId)]]
  /\ UNCHANGED notScan

\* the holdings query of household h rejects: nothing in the loop catches it
HoldingsThrow(c) ==
  /\ scans[c].pc = "holdings"
  /\ scans' = [scans EXCEPT ![c] = ScanRejected(@, "holdings query failed")]
  /\ UNCHANGED notScan

\* the caller takes the result or the error; the alerts go to the client
ScanSettledAdmitting(c) ==
  /\ scans[c].pc \in {"resolved", "rejected"}
  /\ scans' = [scans EXCEPT ![c] = IdleScan]
  /\ Admitted(scans[c].alerts, getNewAlerts(alertHistory, scans[c].alerts, now))
  /\ UNCHANGED <<newAlerts, now, cleaned, runs, schedVars, twin, active>>
ScanSettled(c) ==
  /\ scans[c].pc \in {"resolved", "rejected"}
  /\ scans' = [scans EXCEPT ![c] = IdleScan]
  /\ UNCHANGED notScan

\* the invocations with an advisorId among advisorIds (0: none given) and,
\* for getHouseholdAlerts, a householdId among householdIds
Invocations(advisorIds, householdIds) ==
  {<<entry, advisorId, 0>> :
     entry \in EntryPoints \ {"getHouseholdAlerts"}, advisorId \in advisorIds}
  \cup {<<"getHouseholdAlerts", 0, householdId>> : householdId \in householdIds}

\* the steps of the calls in the places callIds, for the given invocations
\* and over the given query results
ScanProcess(callIds, invocations, householdLists, holdingsLists) ==
  \/ \E c \in callIds, call \in invocations : ApiCall(c, call[1], call[2], call[3])
  \/ \E c \in callIds, db \in {"handle", "null"} : ScanGetDbReturns(c, db)
  \/ \E c \in callIds, list \in householdLists : HouseholdsListed(c, list)
  \/ \E c \in callIds : HouseholdsQueryThrows(c)
  \/ \E c \in callIds, householdHoldings \in holdingsLists :
       HoldingsReturn(c, householdHoldings)
  \/ \E c \in callIds : WrapperResumes(c)
  \/ \E c \in callIds : HoldingsThrow(c)
  \/ \E c \in callIds : ScanSettled(c)

\* One call at a time and one household per scan, every list of holdings:
\* the rules on their inputs.
NextRules == ScanProcess({1}, Invocations(0..1, 0..1), {<<household>> : household \in HouseholdRows}, HoldingsLists)
SpecRules == Init /\ [][NextRules]_vars

\* the call the rules are checked on
scan == scans[1]

\* The entry points, two calls at a time, next to a manual run, the hourly
\* cleanup callback and the clock: a database of one household with one of
\* two portfolios.
ApiHouseholds == {household \in HouseholdRows :
                    household.householdId = 1 /\ household.riskTolerance = "conservative"}
ApiHouseholdLists == {<<household>> : household \in ApiHouseholds}
ApiHoldingsLists ==
  { <<>>,
    <<Holding("AAPL", 25000, "equity", 100, 200),
      Holding("MSFT", 75000, "equity", 100, 1000)>> }

NextApi ==
  \/ ScanProcess({1, 2}, Invocations({0}, {1}), ApiHouseholdLists, ApiHoldingsLists)
  \/ TriggerRun(1)
  \/ BriefStep(1)
  \/ CleanupPass
  \/ Tick(RetentionDays * Day + 1)

SpecApi == Init /\ [][NextApi]_vars

\* ------------------------------------ two executions that differ in severity
\* every alert of the scans, with the severities it can be computed with
PairAlerts ==
  Alerts \cup {[id |-> "under_2_MSFT", severity |-> "critical", advisorId |-> 2]}
PairBatches == SeqsUpTo(PairAlerts, MaxBatch)
PairInstants == {3 * Day, RenotifyDays * Day, RetentionDays * Day + 1}

\* the same alerts in the same order, up to their severity
SameButSeverity(b1, b2) ==
  /\ Len(b1) = Len(b2)
  /\ \A k \in 1..Len(b1) :
       b1[k].id = b2[k].id /\ b1[k].advisorId = b2[k].advisorId

\* an alert that is critical in the first execution is not in the second
Escalated(b1, b2) ==
  \E k \in 1..Len(b1) : b1[k].severity = "critical" /\ b2[k].severity # "critical"

notPair == <<runs, schedVars, scans, active>>

\* both executions call getNewAlerts at the same instant
PairCall(b1, b2) ==
  /\ SameButSeverity(b1, b2)
  /\ LET r1 == getNewAlerts(alertHistory, b1, now)
         r2 == getNewAlerts(twin.history, b2, now)
     IN /\ Admitted(b1, r1)
        /\ newAlerts' = r1.newAlerts
        /\ twin' = [history |-> r2.history, newAlerts |-> r2.newAlerts,
                    escalated |-> Escalated(b1, b2)]
  /\ UNCHANGED <<now, cleaned, notPair>>

\* the cleanup callback fires in both executions
PairCleanup ==
  /\ alertHistory' = cleanupOldAlertHistory(alertHistory, now)
  /\ pruned' = pruned \cup (DOMAIN alertHistory \ DOMAIN alertHistory')
  /\ cleaned' = TRUE
  /\ twin' = [twin EXCEPT !.history = cleanupOldAlertHistory(@, now)]
  /\ UNCHANGED <<now, newAlerts, notifiedAt, observed, notPair>>

\* time passes in both executions
PairTick(t) ==
  /\ t > now
  /\ now' = t
  /\ newAlerts' = <<>>
  /\ cleaned' = FALSE
  /\ twin' = [twin EXCEPT !.newAlerts = <<>>, !.escalated = FALSE]
  /\ UNCHANGED <<ledgerVars, notPair>>

NextPair ==
  \/ \E b1, b2 \in PairBatches : PairCall(b1, b2)
  \/ PairCleanup
  \/ \E t \in PairInstants : PairTick(t)

SpecPair == Init /\ [][NextPair]_vars

\* ------------------------------- the ledger operations, statement by statement
\* getNewAlerts and cleanupOldAlertHistory contain no await: once entered,
\* the function runs to its return before any other callback is started.
MayEnterAnytime(section) == TRUE
MayEnter(section) == section.call.who = 0 /\ section.pass.who = "none"

notSerial == <<runs, schedVars, scans, twin>>

\* a run calls getNewAlerts(allAlerts): const now, const newAlerts = []
GetNewAlertsEnters(r, allAlerts) ==
  /\ MayEnter(active)
  /\ active.call.who = 0
  /\ active' = [active EXCEPT !.call = [who |-> r, allAlerts |-> allAlerts, k |-> 1,
                                        newAlerts |-> <<>>, start |-> alertHistory]]
  /\ UNCHANGED <<ledgerState, now, cleaned, notSerial>>

\* one iteration of the for loop: the lookup and the update of one alert id
GetNewAlertsIterates ==
  /\ active.call.who # 0
  /\ active.call.k <= Len(active.call.allAlerts)
  /\ LET alert == active.call.allAlerts[active.call.k]
         notify == \/ alert.id \notin DOMAIN alertHistory
                   \/ ShouldRenotify(now, alertHistory[alert.id].lastNotified)
     IN /\ alertHistory' =
             IF alert.id \notin DOMAIN alertHistory
             THEN alertHistory @@ (alert.id :> NewEntry(alert.id, now))
             ELSE IF notify
                  THEN [alertHistory EXCEPT ![alert.id] = Renotified(@, now)]
                  ELSE alertHistory
        /\ active' = [active EXCEPT !.call.k = @ + 1,
                                    !.call.newAlerts =
                                       IF notify THEN Append(@, alert) ELSE @]
  /\ UNCHANGED <<newAlerts, notifiedAt, observed, pruned, now, cleaned, notSerial>>

\* return newAlerts
GetNewAlertsReturns ==
  /\ active.call.who # 0
  /\ active.call.k > Len(active.call.allAlerts)
  /\ Admitted(active.call.allAlerts,
              [history |-> alertHistory, newAlerts |-> active.call.newAlerts])
  /\ newAlerts' = active.call.newAlerts
  /\ active' = [active EXCEPT !.call = IdleCall]
  /\ UNCHANGED <<now, cleaned, notSerial>>

\* the cleanup callback starts: const thirtyDaysAgo, the iterator of the map
CleanupEnters ==
  /\ MayEnter(active)
  /\ active.pass.who = "none"
  /\ active' = [active EXCEPT !.pass = [who |-> "cleanup", keys |-> DOMAIN alertHistory,
                                        start |-> alertHistory]]
  /\ UNCHANGED <<ledgerState, now, cleaned, notSerial>>

\* one iteration over the entries: compare firstDetected, delete
CleanupIterates(alertId) ==
  /\ active.pass.who # "none"
  /\ alertId \in active.pass.keys
  /\ alertHistory' =
       IF alertId \in DOMAIN alertHistory /\ IsExpired(alertHistory[alertId], now)
       THEN [id \in DOMAIN alertHistory \ {alertId} |-> alertHistory[id]]
       ELSE alertHistory
  /\ pruned' = pruned \cup (DOMAIN alertHistory \ DOMAIN alertHistory')
  /\ active' = [active EXCEPT !.pass.keys = @ \ {alertId}]
  /\ UNCHANGED <<newAlerts, notifiedAt, observed, now, cleaned, notSerial>>

\* the loop is over: the pass logs its count and returns
CleanupReturns ==
  /\ active.pass.who # "none"
  /\ active.pass.keys = {}
  /\ cleaned' = TRUE
  /\ active' = [active EXCEPT !.pass = IdlePass]
  /\ UNCHANGED <<ledgerState, now, notSerial>>

\* time passes between callbacks
SerialTick(t) ==
  /\ active = IdleSection
  /\ Tick(t)

NextSerial ==
  \/ \E r \in RunIds, allAlerts \in Batches : GetNewAlertsEnters(r, allAlerts)
  \/ GetNewAlertsIterates
  \/ GetNewAlertsReturns
  \/ CleanupEnters
  \/ \E alertId \in AlertIds : CleanupIterates(alertId)
  \/ CleanupReturns
  \/ \E t \in PairInstants \cup {29 * Day} : SerialTick(t)

SpecSerial == Init /\ [][NextSerial]_vars

\* ------------------------------------------------------- the daily schedule
\* The alert the daily scans keep reporting, as critical or as warning.
RecurringId == "conc_1_AAPL"
RecurringBatches == {b \in Batches : IdsOf(b) = {RecurringId}}

\* the next day of the schedule begins; the schedule runs past the retention
\* period, so that cleanup passes find entries to remove
DayPasses ==
  /\ now + Day <= MaxDays * Day
  /\ Tick(now + Day)

\* getNewAlerts as called by the run the daily trigger started; every scan
\* reports the recurring alert
DailyScan == \E b \in RecurringBatches : GetNewAlertsCall(b)

NextDaily ==
  \/ DayPasses
  \/ DailyScan
  \/ CleanupPass

\* The trigger fires every day and its runs complete: days keep passing and
\* a scan that is due is not postponed for ever. Cleanup passes come whenever
\* they like, and from the 31st day on they remove the entry of an alert
\* first detected more than 30 days before.
SpecDaily ==
  /\ Init
  /\ [][NextDaily]_vars
  /\ WF_vars(DayPasses)
  /\ WF_vars(DailyScan)

\* --------------------------------------------- two runs in progress together
\* The server has started: initComplianceJob() was called once and its
\* import resolved, so both triggers are armed.
InitArmed ==
  /\ now = 0
  /\ alertHistory = <<>>
  /\ newAlerts = <<>>
  /\ notifiedAt = <<>>
  /\ observed = {}
  /\ pruned = {}
  /\ cleaned = FALSE
  /\ runs = [r \in RunIds |-> IdleRun]
  /\ tasks = <<[kind |-> "scan", armed |-> TRUE], [kind |-> "cleanup", armed |-> TRUE]>>
  /\ cronTask = 1
  /\ cleanupTask = 2
  /\ pendingImports = 0
  /\ scans = [c \in CallIds |-> IdleScan]
  /\ twin = IdleTwin
  /\ active = IdleSection

InProgress(r) == runs[r].pc \notin {"idle", "returned", "rejected"}

NextOverlap ==
  \/ \E h \in 1..Len(tasks) : ScanTriggerFires(h)
  \/ \E h \in 1..Len(tasks) : CleanupTriggerFires(h)
  \/ TriggerComplianceScan
  \/ \E r \in RunIds : BriefStep(r)
  \/ Tick(RenotifyDays * Day)
  \/ Tick(RetentionDays * Day + 1)

SpecOverlap == InitArmed /\ [][NextOverlap]_vars

\* ------------------------------------------------------------------ claims
\* b[i] is the first alert of the batch with its id: the one the loop of
\* getNewAlerts reaches while the ledger still is as the call found it.
FirstOfId(b, i) == \A j \in 1..(i - 1) : b[j].id # b[i].id

Contains(alerts, alert) == \E j \in 1..Len(alerts) : alerts[j] = alert

\* C1: first sighting always notifies. When getNewAlerts reaches an alert
\* whose id has no ledger entry, it creates the entry with
\* firstDetected = lastNotified = now and returns that alert as new.
C1_FirstSightingNotifies ==
  [][\A b \in Batches : GetNewAlertsCall(b) =>
       \A i \in 1..Len(b) :
         (FirstOfId(b, i) /\ b[i].id \notin DOMAIN alertHistory) =>
           /\ b[i].id \in DOMAIN alertHistory'
           /\ alertHistory'[b[i].id].firstDetected = now
           /\ alertHistory'[b[i].id].lastNotified = now
           /\ Contains(newAlerts', b[i])]_vars

C1_Witness ==
  /\ now = 3 * Day
  /\ \E id \in DOMAIN alertHistory :
       /\ alertHistory[id].firstDetected = now
       /\ alertHistory[id].lastNotified = now
       /\ id \in IdsOf(newAlerts)

\* C2: an alert whose id already has an entry is returned, and lastNotified
\* set to now, if and only if now - lastNotified >= 7 days; otherwise it is
\* left out and its entry is not changed.
C2_RenotifyIffSevenDays ==
  [][\A b \in Batches : GetNewAlertsCall(b) =>
       \A i \in 1..Len(b) :
         (FirstOfId(b, i) /\ b[i].id \in DOMAIN alertHistory) =>
           IF now - alertHistory[b[i].id].lastNotified >= 7 * Day
           THEN /\ Contains(newAlerts', b[i])
                /\ alertHistory'[b[i].id].lastNotified = now
           ELSE /\ b[i].id \notin IdsOf(newAlerts')
                /\ alertHistory'[b[i].id] = alertHistory[b[i].id]]_vars

\* notified at day 0 and again, exactly 7 days later, at day 7
C2_Witness ==
  /\ now = 7 * Day
  /\ \E id \in DOMAIN alertHistory :
       /\ alertHistory[id].firstDetected = 0
       /\ alertHistory[id].lastNotified = now
       /\ id \in IdsOf(newAlerts)

\* C3 as claimed: whatever scans and cleanup passes come between them, two
\* successive inclusions of an id in a new-alert list are at least 7 days apart.
C3_ThrottleWindowAlways ==
  [][\A b \in Batches : GetNewAlertsCall(b) =>
       \A id \in IdsOf(newAlerts') \cap DOMAIN notifiedAt :
         now - notifiedAt[id] >= 7 * Day]_vars

\* C3 as amended: two successive inclusions of an id are at least 7 days
\* apart whenever the id's entry was in the ledger when the later call began,
\* that is, no cleanup pass removed it since the earlier inclusion.
C3_ThrottleWindowWhileTracked ==
  [][\A b \in Batches : GetNewAlertsCall(b) =>
       \A id \in IdsOf(newAlerts') \cap DOMAIN alertHistory :
         /\ id \in DOMAIN notifiedAt
         /\ now - notifiedAt[id] >= 7 * Day]_vars

\* an id notified at day 0 and for the second time at day 8
C3_Witness ==
  /\ now = 8 * Day
  /\ \E id \in DOMAIN alertHistory \cap DOMAIN notifiedAt :
       /\ notifiedAt[id] = now
       /\ alertHistory[id].firstDetected = 0
       /\ id \in IdsOf(newAlerts)

\* C4 as claimed: a cleanup pass keeps an entry first detected 29 days ago
\* and removes one first detected exactly 30 days ago or earlier.
C4_RemovedAtThirtyDays ==
  [][CleanupPass =>
       \A id \in DOMAIN alertHistory :
         /\ now - alertHistory[id].firstDetected = 29 * Day => id \in DOMAIN alertHistory'
         /\ now - alertHistory[id].firstDetected >= 30 * Day => id \notin DOMAIN alertHistory']_vars

\* C4 as amended: a cleanup pass keeps an entry first detected 29 days ago
\* and one first detected exactly 30 days ago, and removes an entry first
\* detected more than 30 days ago, whatever its lastNotified.
C4_RemovedPastThirtyDays ==
  [][CleanupPass =>
       \A id \in DOMAIN alertHistory :
         /\ now - alertHistory[id].firstDetected \in {29 * Day, 30 * Day}
              => id \in DOMAIN alertHistory'
         /\ now - alertHistory[id].firstDetected >= 30 * Day + 1
              => id \notin DOMAIN alertHistory']_vars

\* a pass at day 30 has just kept an entry that is exactly 30 days old
C4_Witness ==
  /\ now = 30 * Day
  /\ cleaned
  /\ \E id \in DOMAIN alertHistory : alertHistory[id].firstDetected = 0

\* C5: a cleanup pass removes exactly the entries whose firstDetected is
\* older than 30 days, whatever their lastNotified, and leaves every other
\* entry as it was; after the pass no entry older than 30 days remains.
C5_CleanupRemovesExactlyOld ==
  [][CleanupPass =>
       /\ DOMAIN alertHistory' \subseteq DOMAIN alertHistory
       /\ \A id \in DOMAIN alertHistory :
            /\ id \notin DOMAIN alertHistory'
                 <=> now - alertHistory[id].firstDetected > 30 * Day
            /\ id \in DOMAIN alertHistory' => alertHistory'[id] = alertHistory[id]
       /\ \A id \in DOMAIN alertHistory' :
            now - alertHistory'[id].firstDetected <= 30 * Day]_vars

\* a pass has removed an entry that had been re-notified less than 30 days
\* before, while the other entry, first detected later, is still there
C5_Witness ==
  /\ cleaned
  /\ \E id \in pruned :
       /\ id \notin DOMAIN alertHistory
       /\ now - notifiedAt[id] < 30 * Day
  /\ \E id \in DOMAIN alertHistory : alertHistory[id].firstDetected > 0

\* C6: firstDetected of an entry never changes while the entry is in the
\* ledger, not even when a later getNewAlerts call re-notifies it.
C6_FirstDetectedSetOnce ==
  [][\A id \in DOMAIN alertHistory :
       id \in DOMAIN alertHistory' =>
         alertHistory'[id].firstDetected = alertHistory[id].firstDetected]_vars

\* an entry first detected at day 3 has been re-notified later
C6_Witness ==
  \E id \in DOMAIN alertHistory :
    /\ alertHistory[id].firstDetected = 3 * Day
    /\ alertHistory[id].lastNotified = now
    /\ alertHistory[id].lastNotified > alertHistory[id].firstDetected
    /\ id \in IdsOf(newAlerts)

\* C7: a getNewAlerts call leaves every entry whose id is not in the batch
\* in the ledger, with the same firstDetected and lastNotified.
C7_AbsentIdsUntouched ==
  [][\A b \in Batches : GetNewAlertsCall(b) =>
       \A id \in DOMAIN alertHistory \ IdsOf(b) :
         /\ id \in DOMAIN alertHistory'
         /\ alertHistory'[id] = alertHistory[id]]_vars

\* a call has just notified one id while the entry of another id, absent
\* from the batch, is still tracked with its old lastNotified
C7_Witness ==
  \E id \in DOMAIN alertHistory, other \in DOMAIN alertHistory :
    /\ id # other
    /\ alertHistory[id].lastNotified = now
    /\ IdsOf(newAlerts) = {id}
    /\ other \notin IdsOf(newAlerts)
    /\ alertHistory[other].lastNotified < now

\* C8 as claimed: an entry exists for an id if and only if a completed scan
\* has handed the id to the ledger, and an entry leaves the ledger only in a
\* cleanup pass, because of the age of its firstDetected.
C8_EntryIffObserved ==
  [][/\ \A id \in AlertIds : id \in DOMAIN alertHistory' <=> id \in observed'
     /\ \A id \in DOMAIN alertHistory \ DOMAIN alertHistory' :
          /\ CleanupPass
          /\ now - alertHistory[id].firstDetected > 30 * Day]_vars

\* C8 as amended: an entry exists for an id if and only if a completed scan
\* has handed the id to the ledger and no cleanup pass has removed the entry
\* since the id was last scanned; an entry leaves the ledger only in a
\* cleanup pass, because its firstDetected is older than 30 days.
C8_EntryIffObservedSincePruned ==
  [][/\ \A id \in AlertIds : id \in DOMAIN alertHistory' <=> id \in observed' \ pruned'
     /\ \A id \in DOMAIN alertHistory \ DOMAIN alertHistory' :
          /\ CleanupPass
          /\ now - alertHistory[id].firstDetected > 30 * Day]_vars

\* an id that was scanned has lost its entry to a cleanup pass, while the
\* other id keeps the entry a scan gave it
C8_Witness ==
  /\ cleaned
  /\ \E id \in observed : id \in pruned /\ id \notin DOMAIN alertHistory
  /\ \E id \in observed : id \in DOMAIN alertHistory

\* C9: whatever initComplianceJob calls were made and whichever of their
\* imports have resolved, at most one scan trigger and at most one cleanup
\* trigger are armed, and they are the ones cronTask and cleanupTask hold:
\* every task installed before them has been stopped.
C9_AtMostOneTriggerEach ==
  /\ Cardinality(Armed("scan")) <= 1
  /\ Cardinality(Armed("cleanup")) <= 1
  /\ Armed("scan") \subseteq {cronTask}
  /\ Armed("cleanup") \subseteq {cleanupTask}

\* initComplianceJob ran twice and both imports have resolved
C9_Witness ==
  /\ Len(tasks) = 4
  /\ pendingImports = 0
  /\ Armed("scan") = {cronTask}
  /\ Armed("cleanup") = {cleanupTask}
  /\ \E h \in 1..Len(tasks) : tasks[h].kind = "cleanup" /\ ~tasks[h].armed

\* C10: the promise of runComplianceScan never rejects, whichever step of
\* the run fails.
C10_RunNeverRejects == \A r \in RunIds : runs[r].pc # "rejected"

Messages(run, kind) == {k \in 1..Len(run.sent) : run.sent[k].kind = kind}

\* C11: a run that hit an error, the database being unavailable included,
\* has delivered a failure notification with the error detail by the time
\* it ends.
C11_FailedRunNotifiesOwner ==
  \A r \in RunIds :
    (runs[r].pc \in {"returned", "rejected"} /\ runs[r].error # "none") =>
      \E k \in Messages(runs[r], "failure") : runs[r].sent[k].detail = runs[r].error

\* C12: when the notification of one advisor fails while advisors remain,
\* the run goes on with them instead of entering its catch block.
C12_DispatchFailureRecovered ==
  \A r \in RunIds :
    ~ /\ runs[r].error = "notification failed"
      /\ runs[r].i < runs[r].advisors
      /\ runs[r].pc \in {"failNotify", "returned", "rejected"}

\* C16: when the scan of an advisor returns a non-empty new list, the run
\* awaits notifyAdvisorOfAlerts; notifyOwner is called for that advisor,
\* once, if and only if the new alerts hold a critical or a warning alert;
\* the message delivered lists those alerts and no info alert, and a run
\* delivers at most one message to an advisor.
C16_OneAdvisorMessage ==
  [][\A r \in RunIds :
       /\ \A alerts \in RunBatchesOf(runs[r].i) : ScanReturns(r, alerts) =>
            /\ runs'[r].pc = "notifyAdvisor" <=> newAlerts' # <<>>
            /\ runs'[r].pc = "notifyAdvisor" =>
                 /\ runs'[r].i = runs[r].i
                 /\ runs'[r].newAlerts = newAlerts'
            /\ runs'[r].sent = runs[r].sent
       /\ (runs[r].pc = "notifyAdvisor" /\ runs'[r] # runs[r]) =>
            IF \E j \in 1..Len(runs[r].newAlerts) :
                 runs[r].newAlerts[j].severity \in {"critical", "warning"}
            THEN \/ runs'[r].pc = "failNotify" /\ runs'[r].sent = runs[r].sent
                 \/ /\ Len(runs'[r].sent) = Len(runs[r].sent) + 1
                    /\ runs'[r].sent[Len(runs'[r].sent)].kind = "alerts"
            ELSE /\ runs'[r].sent = runs[r].sent
                 /\ runs'[r].pc # "failNotify"
       /\ AdvisorNotifySettles(r, "delivered") =>
            /\ Len(runs'[r].sent) = Len(runs[r].sent) + 1
            /\ LET m == runs'[r].sent[Len(runs'[r].sent)]
               IN /\ m.kind = "alerts"
                  /\ m.advisor = runs[r].i
                  /\ \A j \in 1..Len(m.alerts) : m.alerts[j].severity # "info"
                  /\ Len(m.alerts) >= 1
                  /\ \A j \in 1..Len(runs[r].newAlerts) :
                       runs[r].newAlerts[j].severity = "critical"
                         => Contains(m.alerts, runs[r].newAlerts[j])
       /\ \A a \in 1..NumAdvisors :
            Cardinality({k \in Messages(runs'[r], "alerts") :
                           runs'[r].sent[k].advisor = a}) <= 1]_vars

\* advisor 1 had a critical and an info alert as new: both were counted,
\* the one message delivered lists the critical alert alone
C16_Witness ==
  \E r \in RunIds :
    /\ runs[r].totalAlerts = 2
    /\ runs[r].totalCritical = 1
    /\ Len(runs[r].sent) >= 1
    /\ runs[r].sent[1].kind = "alerts"
    /\ runs[r].sent[1].advisor = 1
    /\ Len(runs[r].sent[1].alerts) = 1
    /\ runs[r].sent[1].alerts[1].severity = "critical"

\* C17: a run that completed without error has delivered exactly one owner
\* summary if its total of new alerts is not zero and none if it is zero;
\* the summary comes after the loop over the advisors and is the last
\* message of the run.
C17_OneSummaryAfterLoop ==
  \A r \in RunIds :
    /\ (runs[r].pc = "returned" /\ runs[r].error = "none") =>
         Cardinality(Messages(runs[r], "summary"))
           = IF runs[r].totalAlerts > 0 THEN 1 ELSE 0
    /\ runs[r].pc = "summary" => runs[r].i > runs[r].advisors
    /\ \A k \in Messages(runs[r], "summary") :
         /\ k = Len(runs[r].sent)
         /\ runs[r].i > runs[r].advisors
         /\ runs[r].pc = "returned"

\* two advisors were scanned, the first was notified, the summary came last
C17_Witness ==
  \E r \in RunIds :
    /\ runs[r].pc = "returned"
    /\ runs[r].error = "none"
    /\ runs[r].advisors = 2
    /\ runs[r].totalAlerts > 0
    /\ Len(runs[r].sent) = 2
    /\ runs[r].sent[1].kind = "alerts"
    /\ runs[r].sent[2].kind = "summary"

\* C13: a failure of the holdings query of one household does not end the
\* scan: the call is not rejected with that failure.
C13_HouseholdFailureSkipped ==
  \A c \in CallIds :
    scans[c].error = "holdings query failed" => scans[c].pc # "rejected"

\* C14: an entry point invoked while getDb() gives no handle ends rejected
\* with the database error and without a result; this holds for the three
\* calls of compliance.ts and for the manual run.
C14_UnavailableReachesCaller ==
  /\ \A c \in CallIds :
       scans[c].error = "Database not available" =>
         scans[c].pc = "rejected" /\ scans[c].result = <<>>
  /\ \A r \in RunIds :
       runs[r].error = "database not available" => runs[r].pc = "rejected"

\* a step of a run that returns from scanComplianceIssues and calls
\* getNewAlerts
RunWritesLedger == \E r \in RunIds : runs[r].pc = "scan" /\ runs'[r] # runs[r]

\* a firing of the cleanup callback: nothing but the ledger changes, and the
\* ledger loses exactly its expired entries
CleanupWritesLedger ==
  /\ alertHistory' = cleanupOldAlertHistory(alertHistory, now)
  /\ UNCHANGED <<now, runs, scans>>

\* C15, as the claim states it: no step of an on-demand call changes the
\* ledger, and every step that changes the ledger is the getNewAlerts call
\* of a run.
C15_OnlyRunsWriteLedger ==
  [][/\ scans' # scans => alertHistory' = alertHistory
     /\ alertHistory' # alertHistory => RunWritesLedger]_vars

\* C15: no step of scanComplianceIssues, getComplianceStats or
\* getHouseholdAlerts changes the ledger (its entries, their firstDetected
\* and lastNotified), wherever the calls are interleaved with runs, cleanup
\* firings and the clock; every step that changes the ledger is the
\* getNewAlerts call of a run or a firing of the cleanup callback.
C15_OnlyJobsWriteLedger ==
  [][/\ scans' # scans => alertHistory' = alertHistory
     /\ alertHistory' # alertHistory =>
          RunWritesLedger \/ CleanupWritesLedger]_vars

\* an on-demand call has resolved with alerts the ledger does not hold,
\* after a cleanup firing removed an entry, while the manual run, which
\* wrote the entry the ledger holds, is suspended at its dispatch
C15_Witness ==
  /\ \E c \in CallIds :
       /\ scans[c].pc = "resolved"
       /\ \E id \in IdsOf(scans[c].alerts) : id \notin DOMAIN alertHistory
  /\ DOMAIN alertHistory # {}
  /\ pruned # {}
  /\ \E r \in RunIds : runs[r].pc = "notifyAdvisor"

ConcentrationAlerts(alerts) ==
  LET IsConcentration(a) == a.type = "concentration_risk"
  IN SelectSeq(alerts, IsConcentration)

\* C20: after the scan of one household, the concentration alerts are, in
\* the order of the holdings, one alert for each holding whose value is more
\* than 10% of the total value and none for the others; the alert is
\* critical iff the value is more than 20% of the total, and its
\* affectedHoldings holds the ticker, the percentage and the value.
C20_ConcentrationRule ==
  (scan.pc = "resolved" /\ Len(scan.householdsList) = 1) =>
    LET household == scan.householdsList[1]
        hs == scan.householdHoldings
        total == SumValues(hs)
        conc == ConcentrationAlerts(scan.alerts)
        offenders == {k \in 1..Len(hs) : 100 * hs[k].currentValue > 10 * total}
        Rank(k) == Cardinality({j \in offenders : j <= k})
    IN /\ Len(conc) = Cardinality(offenders)
       /\ \A k \in offenders :
            LET a == conc[Rank(k)]
            IN /\ a.id = "conc_" \o ToString(household.householdId)
                           \o "_" \o hs[k].ticker
               /\ a.householdId = household.householdId
               /\ a.severity = IF 100 * hs[k].currentValue > 20 * total
                               THEN "critical" ELSE "warning"
               /\ Len(a.affectedHoldings) = 1
               /\ a.affectedHoldings[1].ticker = hs[k].ticker
               /\ a.affectedHoldings[1].value = hs[k].currentValue
               /\ a.affectedHoldings[1].percentage
                    = [num |-> 100 * hs[k].currentValue, den |-> total]

\* 20000 of 100000 is exactly 20%: a warning; the other holding, 80000, is
\* critical with percentage 80
C20_Witness ==
  /\ scan.pc = "resolved"
  /\ Len(scan.householdHoldings) = 2
  /\ scan.householdHoldings[1].currentValue = 20000
  /\ scan.householdHoldings[2].currentValue = 80000
  /\ Len(ConcentrationAlerts(scan.alerts)) = 2
  /\ ConcentrationAlerts(scan.alerts)[1].severity = "warning"
  /\ ConcentrationAlerts(scan.alerts)[2].severity = "critical"
  /\ ConcentrationAlerts(scan.alerts)[2].affectedHoldings[1].percentage
       = [num |-> 8000000, den |-> 100000]

IdSeq(alerts) == [k \in 1..Len(alerts) |-> alerts[k].id]

\* C19: two executions whose getNewAlerts calls receive the same alert ids
\* at the same instants, with any severities, return the same ids from every
\* call and hold the same ledger at every moment.
C19_SeverityIndependent ==
  /\ twin.history = alertHistory
  /\ IdSeq(twin.newAlerts) = IdSeq(newAlerts)

\* three days after their notification the alerts are scanned again, one of
\* them critical in the first execution only: neither call returns anything
C19_Witness ==
  /\ now = 3 * Day
  /\ twin.escalated
  /\ \A id \in DOMAIN alertHistory : alertHistory[id].lastNotified = 0
  /\ newAlerts = <<>>
  /\ twin.newAlerts = <<>>

\* C18: a getNewAlerts batch and a cleanup pass are never in progress
\* together, and no other writer acts during either: whatever the order in
\* which the two runs and the cleanup job enter, the ledger during a batch
\* is the ledger at its start with the alerts handled so far admitted, and
\* the ledger during a pass is the ledger at its start without the expired
\* entries already visited.
C18_LedgerOperationsSerialized ==
  /\ ~(active.call.who # 0 /\ active.pass.who # "none")
  /\ active.call.who # 0 =>
       LET done == SubSeq(active.call.allAlerts, 1, active.call.k - 1)
       IN [history |-> alertHistory, newAlerts |-> active.call.newAlerts]
            = getNewAlerts(active.call.start, done, now)
  /\ active.pass.who # "none" =>
       LET visited == DOMAIN active.pass.start \ active.pass.keys
           whole == cleanupOldAlertHistory(active.pass.start, now)
       IN alertHistory =
            [id \in DOMAIN whole \cup active.pass.keys |-> active.pass.start[id]]

\* after a cleanup pass at the same instant, the loop of the manual run's
\* call has handled its two alerts: one was throttled, the other got a new
\* entry
C18_Witness ==
  /\ active.call.who = 2
  /\ Len(active.call.allAlerts) = 2
  /\ active.call.k = 3
  /\ Len(active.call.newAlerts) = 1
  /\ pruned = {}
  /\ cleaned
  /\ DOMAIN active.call.start # DOMAIN alertHistory

\* the scan of one household has returned
OneHouseholdScanned == scan.pc = "resolved" /\ Len(scan.householdsList) = 1
OfType(alerts, type) ==
  LET IsOfType(a) == a.type = type IN SelectSeq(alerts, IsOfType)
HouseholdIdText == ToString(scan.householdsList[1].householdId)

\* C21: a household with holdings gets one suitability_mismatch alert, a
\* warning, if its risk tolerance (moderate when absent) and its equity
\* percentage (0 when the total value is 0) are out of line: conservative
\* above 40, moderate below 40 or above 70, aggressive below 70; otherwise it
\* gets none. Exactly 40 and exactly 70 are in line.
C21_SuitabilityRule ==
  (OneHouseholdScanned /\ Len(scan.householdHoldings) > 0) =>
    LET household == scan.householdsList[1]
        hs == scan.householdHoldings
        total == SumValues(hs)
        equity == SumValues(SelectSeq(hs, IsEquity))
        EquityAbove(n) == IF total > 0 THEN 100 * equity > n * total ELSE 0 > n
        EquityBelow(n) == IF total > 0 THEN 100 * equity < n * total ELSE 0 < n
        tolerance == IF household.riskTolerance = "null" THEN "moderate"
                     ELSE household.riskTolerance
        mismatch == \/ tolerance = "conservative" /\ EquityAbove(40)
                    \/ tolerance = "moderate" /\ (EquityBelow(40) \/ EquityAbove(70))
                    \/ tolerance = "aggressive" /\ EquityBelow(70)
        suit == OfType(scan.alerts, "suitability_mismatch")
    IN /\ Len(suit) = IF mismatch THEN 1 ELSE 0
       /\ \A k \in 1..Len(suit) :
            /\ suit[k].severity = "warning"
            /\ suit[k].id = "suit_" \o HouseholdIdText

\* a conservative household holds 20000 of equity and 30000 of bonds,
\* exactly 40% equity: no suitability alert
C21_Witness ==
  /\ OneHouseholdScanned
  /\ scan.householdsList[1].riskTolerance = "conservative"
  /\ Len(scan.householdHoldings) = 2
  /\ scan.householdHoldings[1].currentValue = 20000
  /\ scan.householdHoldings[1].assetClass = "equity"
  /\ scan.householdHoldings[2].currentValue = 30000
  /\ scan.householdHoldings[2].assetClass = "bond"
  /\ OfType(scan.alerts, "suitability_mismatch") = <<>>

ReviewAlertsAsClaimed ==
  LET household == scan.householdsList[1]
      days == IF household.lastReviewDate = <<>> THEN 999
              ELSE (now - household.lastReviewDate[1]) \div Day
      review == OfType(scan.alerts, "annual_review_due")
  IN /\ Len(review) = IF days > 365 THEN 1 ELSE 0
     /\ \A k \in 1..Len(review) :
          /\ review[k].severity = IF days > 400 THEN "critical" ELSE "warning"
          /\ review[k].id = "review_" \o HouseholdIdText

\* C22 as stated: every household gets one annual_review_due alert iff its
\* days since review (999 without a review date) exceed 365, critical iff
\* they exceed 400.
C22_ReviewRuleEveryHousehold == OneHouseholdScanned => ReviewAlertsAsClaimed

\* C22 amended: the same, for every household that has at least one holding.
C22_ReviewRuleWithHoldings ==
  (OneHouseholdScanned /\ Len(scan.householdHoldings) > 0) => ReviewAlertsAsClaimed

\* a household without a review date and with holdings: one critical alert
C22_Witness ==
  /\ OneHouseholdScanned
  /\ scan.householdsList[1].lastReviewDate = <<>>
  /\ Len(scan.householdHoldings) > 0
  /\ Len(OfType(scan.alerts, "annual_review_due")) = 1
  /\ OfType(scan.alerts, "annual_review_due")[1].severity = "critical"

\* C23: a household whose holdings sum to zero gets no alert.
C23_ZeroTotalSkipped ==
  (OneHouseholdScanned /\ SumValues(scan.householdHoldings) = 0) =>
    scan.alerts = <<>>

\* C24: the large_position alerts of a household are, in the order of the
\* holdings, one info alert for each holding with value > 100000 and more
\* than 5% of a total value > 500000, and none for any other holding.
C24_LargePositionRule ==
  (OneHouseholdScanned /\ Len(scan.householdHoldings) > 0) =>
    LET hs == scan.householdHoldings
        total == SumValues(hs)
        large == OfType(scan.alerts, "large_position")
        qualifying == {k \in 1..Len(hs) : /\ total > 500000
                                          /\ hs[k].currentValue > 100000
                                          /\ 100 * hs[k].currentValue > 5 * total}
        Rank(k) == Cardinality({j \in qualifying : j <= k})
    IN /\ Len(large) = Cardinality(qualifying)
       /\ \A k \in qualifying :
            /\ large[Rank(k)].severity = "info"
            /\ large[Rank(k)].id = "large_" \o HouseholdIdText \o "_" \o hs[k].ticker
            /\ large[Rank(k)].affectedHoldings[1].value = hs[k].currentValue

\* 105000 is exactly 5% of 2100000: only the other holding is reported
C24_Witness ==
  /\ OneHouseholdScanned
  /\ Len(scan.householdHoldings) = 2
  /\ scan.householdHoldings[1].currentValue = 105000
  /\ scan.householdHoldings[2].currentValue = 1995000
  /\ Len(OfType(scan.alerts, "large_position")) = 1
  /\ OfType(scan.alerts, "large_position")[1].affectedHoldings[1].value = 1995000

\* C25: the underperforming alerts of a household are, in the order of the
\* holdings, one info alert for each holding with cost = shares * costBasis
\* above 0, a loss of more than 20% of the cost and a value > 10000, and none
\* for any other holding.
C25_UnderperformingRule ==
  (OneHouseholdScanned /\ Len(scan.householdHoldings) > 0) =>
    LET hs == scan.householdHoldings
        under == OfType(scan.alerts, "underperforming")
        Cost(k) == hs[k].shares * hs[k].costBasis
        qualifying == {k \in 1..Len(hs) :
                         /\ Cost(k) > 0
                         /\ 100 * (hs[k].currentValue - Cost(k)) < (0 - 20) * Cost(k)
                         /\ hs[k].currentValue > 10000}
        Rank(k) == Cardinality({j \in qualifying : j <= k})
    IN /\ Len(under) = Cardinality(qualifying)
       /\ \A k \in qualifying :
            /\ under[Rank(k)].severity = "info"
            /\ under[Rank(k)].id = "under_" \o HouseholdIdText \o "_" \o hs[k].ticker
            /\ under[Rank(k)].affectedHoldings[1].value = hs[k].currentValue

\* 20000 against a cost of 25000 is exactly -20%: no alert; 75000 against
\* 100000 is -25%: one alert
C25_Witness ==
  /\ OneHouseholdScanned
  /\ Len(scan.householdHoldings) = 2
  /\ scan.householdHoldings[1].currentValue = 20000
  /\ scan.householdHoldings[1].shares * scan.householdHoldings[1].costBasis = 25000
  /\ scan.householdHoldings[2].currentValue = 75000
  /\ Len(OfType(scan.alerts, "underperforming")) = 1
  /\ OfType(scan.alerts, "underperforming")[1].affectedHoldings[1].ticker = "MSFT"

\* C28: the alerts one scan returns have distinct ids, so getNewAlerts on
\* an empty ledger returns all of them.
C28_IdsUniqueInScan ==
  scan.pc = "resolved" =>
    /\ \A j, k \in 1..Len(scan.alerts) :
         j # k => scan.alerts[j].id # scan.alerts[k].id
    /\ getNewAlerts(<<>>, scan.alerts, now).newAlerts = scan.alerts

\* C27: when the dispatch of an advisor's notification failed, no critical
\* or warning alert of that notification is throttled in the ledger.
C27_LedgerRecordsOnlyDelivered ==
  \A r \in RunIds :
    (runs[r].error = "notification failed" /\ runs[r].i <= runs[r].advisors) =>
      \A k \in 1..Len(runs[r].newAlerts) :
        LET alert == runs[r].newAlerts[k]
        IN alert.severity \in {"critical", "warning"} =>
             ~ /\ alert.id \in DOMAIN alertHistory
               /\ ~ShouldRenotify(now, alertHistory[alert.id].lastNotified)

\* C29: a run that delivered the owner summary delivered at least one
\* advisor notification.
C29_SummaryImpliesAdvisorNotified ==
  \A r \in RunIds :
    Messages(runs[r], "summary") # {} => Messages(runs[r], "alerts") # {}

\* the alert ids a run has put in a new-alert list so far: the list of the
\* advisor it is working on and the lists it has dispatched
IncludedBy(run) ==
  IdsOf(run.newAlerts) \cup
    UNION {IdsOf(run.sent[k].alerts) : k \in Messages(run, "alerts")}

\* C26 as claimed: while two runs are in progress together, no alert id is
\* in a new-alert list of both, whatever cleanup passes fire between their
\* steps.
C26_OverlappingRunsDisjoint ==
  \A r1, r2 \in RunIds :
    (r1 # r2 /\ InProgress(r1) /\ InProgress(r2)) =>
      IncludedBy(runs[r1]) \cap IncludedBy(runs[r2]) = {}

\* C26 as amended: a run includes an alert id that a run still in progress
\* has included before only if, between the two inclusions, at least 7 days
\* passed or a cleanup firing removed the entry of the alert.
C26_OverlappingRunsDisjointUnlessDueOrCleaned ==
  [][\A r2 \in RunIds :
       (runs[r2].pc = "scan" /\ runs'[r2].pc = "notifyAdvisor") =>
         \A r1 \in RunIds \ {r2} :
           InProgress(r1) =>
             \A id \in IdsOf(runs'[r2].newAlerts) \cap IncludedBy(runs[r1]) :
               \/ id \in pruned
               \/ now - notifiedAt[id] >= RenotifyDays * Day]_vars

\* two runs wait for the dispatch of the same alert, no cleanup pass having
\* removed anything: the first has been suspended for 7 days when the
\* second finds the alert due again
C26_Witness ==
  /\ \E r1, r2 \in RunIds :
       /\ r1 # r2
       /\ runs[r1].pc = "notifyAdvisor" /\ runs[r2].pc = "notifyAdvisor"
       /\ IdsOf(runs[r1].newAlerts) \cap IdsOf(runs[r2].newAlerts) # {}
  /\ pruned = {}
  /\ now = RenotifyDays * Day
  /\ \A id \in DOMAIN alertHistory : alertHistory[id].firstDetected = 0

\* the days of the schedule that leave room for a whole throttle window
\* before the clock of the model stops
DaysBeforeLastWindow ==
  {t \in 0..MaxDays * Day : t % Day = 0 /\ t + RenotifyDays * Day <= MaxDays * Day}

\* C30: with the daily scans going on and reporting the alert every time,
\* an alert that was included in a new-alert list is eventually included
\* again, whatever cleanup passes come in between, those that remove its
\* entry among them.
C30_RenotifiedAgain ==
  \A t \in DaysBeforeLastWindow :
    (RecurringId \in DOMAIN notifiedAt /\ notifiedAt[RecurringId] = t)
      ~> (RecurringId \in DOMAIN notifiedAt /\ notifiedAt[RecurringId] > t)

\* the recurring alert, first detected more than 30 days ago and notified
\* again less than 7 days ago, has just lost its entry to a cleanup pass:
\* the next scan includes it once more, inside the throttle window
C30_Witness ==
  /\ cleaned
  /\ RecurringId \in pruned
  /\ RecurringId \notin DOMAIN alertHistory
  /\ RecurringId \in DOMAIN notifiedAt
  /\ notifiedAt[RecurringId] >= RenotifyDays * Day
  /\ now - notifiedAt[RecurringId] < RenotifyDays * Day
====
